---- MODULE Spec2Model ----
(***************************************************************************)
(* State-machine model of the EV-charging-tunisia API (src/app/main.py).   *)
(*                                                                         *)
(* Units.  Time is counted in whole days (datetime.utcnow() truncated to   *)
(* days); a request handler runs within one instant of this clock.         *)
(* Latitudes are tenths of a degree; all modelled points lie on one        *)
(* meridian, where the haversine formula reduces to R * |dlat|.            *)
(* Distances are hundredths of a kilometre (the code rounds to 2           *)
(* decimals), durations are tenths of a minute (rounded to 1 decimal).     *)
(* A string that the code takes apart (connector_type) is a sequence of    *)
(* one-character strings.  A table is the sequence of its rows in the      *)
(* order the repository returns them; primary keys are the row numbers     *)
(* handed out by the insert.  A handler is one step unless a specification *)
(* interleaves requests; then it is one step per database transaction.     *)
(***************************************************************************)
EXTENDS Integers, Sequences, FiniteSets, TLC

VARIABLES now, chargers, reports, reviews, vehicles, trips, request, response,
          inflight, favorites, caller, open_sessions

vars == <<now, chargers, reports, reviews, vehicles, trips, request, response,
         inflight, favorites, caller, open_sessions>>

(***************************************************************************)
(* Bounds of the model                                                     *)
(***************************************************************************)
MaxTime == 9
MaxSeed == 6
MaxReports == 3
MaxTrips == 2
MaxLimit == 3
MaxOpenSessions == 1
MaxReviews == 3
MaxHelpful == 2
MaxFavorites == 2

(***************************************************************************)
(* Program constants                                                       *)
(***************************************************************************)
SevenDays == 7

NULL == -1

IssueTypes == {"broken", "working", "occupied", "under_construction"}

Statuses == IssueTypes \cup {"unknown"}

\* ids a request may name: 1 and 2 are stored chargers, 3 is not
ChargerIds == {1, 2, 3}

UserIds == {1, 2}

(***************************************************************************)
(* Generic helpers                                                         *)
(***************************************************************************)
\* db.query(T).filter(T.id == id).first() as a set of 0 or 1 row numbers
RowsById(table, id) == {i \in DOMAIN table : table[i].id = id}

\* the primary key the insert hands out: one more than the largest stored
next_id(rows) ==
    IF rows = <<>> THEN 1
    ELSE 1 + (CHOOSE k \in {rows[i].id : i \in DOMAIN rows} :
                 \A i \in DOMAIN rows : rows[i].id <= k)

\* the table without the rows at the given positions (db.delete)
without(rows, positions) ==
    LET kept(n) == Cardinality({i \in 1..n : i \notin positions})
        at(k) == CHOOSE i \in DOMAIN rows : i \notin positions /\ kept(i) = k
    IN  [k \in 1..kept(Len(rows)) |-> rows[at(k)]]

NoRequest == [op |-> "none"]

NoResponse == [code |-> 0, detail |-> "", body |-> <<>>]

\* the requests being served at once; a worker that serves none is idle.
\* computed and stamp are the locals of update_charger_status; seen, alone
\* and wrong_before are history: how many reports the table held when the
\* recompute read it, whether no other submission for the same charger was in
\* flight during this one, and whether the stored status differed from the
\* priority chain's result when this one began
Workers == {1, 2}

Idle ==
    [pc |-> "idle", charger_id |-> 0, user_id |-> 0, issue_type |-> "",
     report_id |-> 0, seen |-> 0, computed |-> "", stamp |-> 0, alone |-> TRUE,
     wrong_before |-> FALSE]

NoneInFlight == [w \in Workers |-> Idle]

\* caller is the outcome of the dependencies of the request being served:
\* the token presented, the answer of member_required and the user it
\* resolved; open_sessions counts the sessions opened and not closed
NoCaller ==
    [token |-> [kind |-> "unasked", user_id |-> 0], code |-> 0, detail |-> "",
     user_id |-> 0]

(***************************************************************************)
(* StatusAggregator: update_charger_status                                 *)
(***************************************************************************)
\* the rows of the 7-day query, in table order
RecentIgnoringAge(all_reports, charger_id, t) ==
    SelectSeq(all_reports, LAMBDA r : r.charger_id = charger_id)

recent_reports(all_reports, charger_id, t) ==
    SelectSeq(all_reports, LAMBDA r : r.charger_id = charger_id
                                       /\ r.created_at >= t - SevenDays)

\* status_counts.get(issue_type, 0) after the tally loop
RECURSIVE status_counts(_, _)
status_counts(rs, issue_type) ==
    IF rs = <<>> THEN 0
    ELSE (IF Head(rs).issue_type = issue_type THEN 1 ELSE 0)
         + status_counts(Tail(rs), issue_type)

ResolveMajority(rs) ==
    LET n(k) == status_counts(rs, k)
    IN  IF n("broken") > n("working") /\ n("broken") >= n("occupied")
           /\ n("broken") >= n("under_construction") THEN "broken"
        ELSE IF n("occupied") > n("working")
                /\ n("occupied") >= n("under_construction") THEN "occupied"
        ELSE IF n("under_construction") > n("working") THEN "under_construction"
        ELSE IF n("working") > 0 THEN "working"
        ELSE "unknown"

\* the if/elif chain over the tallied counts
resolve_status(rs) ==
    LET n(k) == status_counts(rs, k)
    IN  IF n("broken") > 0 /\ n("broken") >= n("working") THEN "broken"
        ELSE IF n("occupied") > n("working") THEN "occupied"
        ELSE IF n("under_construction") > n("working") THEN "under_construction"
        ELSE IF n("working") > 0 THEN "working"
        ELSE "unknown"

UpdateEveryCharger(all_chargers, all_reports, charger_id, t) ==
    LET recent == recent_reports(all_reports, charger_id, t)
        status == IF recent = <<>> THEN "unknown" ELSE resolve_status(recent)
    IN  [i \in DOMAIN all_chargers |->
            [all_chargers[i] EXCEPT !.status = status, !.status_updated_at = t]]

\* the chargers table after update_charger_status(charger_id, db) run at time t
update_charger_status(all_chargers, all_reports, charger_id, t) ==
    LET found  == RowsById(all_chargers, charger_id)
        recent == recent_reports(all_reports, charger_id, t)
        status == IF recent = <<>> THEN "unknown" ELSE resolve_status(recent)
    IN  IF found = {} THEN all_chargers
        ELSE [i \in DOMAIN all_chargers |->
                IF i \in found
                THEN [all_chargers[i] EXCEPT !.status = status,
                                             !.status_updated_at = t]
                ELSE all_chargers[i]]

(***************************************************************************)
(* The stored stations                                                     *)
(***************************************************************************)
NewCharger(id, latitude, connector_type) ==
    [id |-> id, latitude |-> latitude, connector_type |-> connector_type,
     status |-> "unknown", status_updated_at |-> 0]

TwoChargers ==
    << NewCharger(1, 350, <<"C", "C", "S">>),
       NewCharger(2, 365, <<"T", "y", "p", "e", " ", "2">>) >>

(***************************************************************************)
(* Actions                                                                 *)
(***************************************************************************)
\* the clock advances by d days
Tick(d) ==
    /\ now + d <= MaxTime
    /\ now' = now + d
    /\ UNCHANGED <<chargers, reports, reviews, vehicles, trips, request, response, inflight,
                   favorites, caller, open_sessions>>

\* update_charger_status called on its own
UpdateChargerStatus(charger_id) ==
    /\ chargers' = update_charger_status(chargers, reports, charger_id, now)
    /\ request' = [op |-> "recompute", charger_id |-> charger_id, at |-> now]
    /\ response' = NoResponse
    /\ UNCHANGED <<now, reports, reviews, vehicles, trips, inflight,
                   favorites, caller, open_sessions>>

\* what report_charger_issue leaves in the database once the charger is found:
\* the report is committed, then the status is recomputed in the same request
RecomputeBeforeStore(all_chargers, all_reports, report, t) ==
    [reports  |-> Append(all_reports, report),
     chargers |-> update_charger_status(all_chargers, all_reports, report.charger_id, t)]

report_charger_issue(all_chargers, all_reports, report, t) ==
    LET stored == Append(all_reports, report)
    IN  [reports  |-> stored,
         chargers |-> update_charger_status(all_chargers, stored, report.charger_id, t)]

ChargerAssumedFound(all_chargers, charger_id) == TRUE

\* `charger = db.query(Charger).filter(Charger.id == charger_id).first()`
\* followed by `if not charger`
charger_found(all_chargers, charger_id) == RowsById(all_chargers, charger_id) # {}

\* POST /chargers/{charger_id}/report by an authenticated member
ReportChargerIssue(user_id, charger_id, issue_type) ==
    /\ Len(reports) < MaxReports
    /\ request' = [op |-> "report", charger_id |-> charger_id, user_id |-> user_id,
                   issue_type |-> issue_type, at |-> now]
    /\ IF ~charger_found(chargers, charger_id)
       THEN /\ response' = [code |-> 404, detail |-> "Charger not found", body |-> <<>>]
            /\ UNCHANGED <<chargers, reports>>
       ELSE LET report == [id |-> Len(reports) + 1, charger_id |-> charger_id,
                           user_id |-> user_id, issue_type |-> issue_type,
                           status |-> "open", created_at |-> now]
                db == report_charger_issue(chargers, reports, report, now)
            IN  /\ reports' = db.reports
                /\ chargers' = db.chargers
                /\ response' = [code |-> 200, detail |-> "Report submitted successfully",
                                body |-> <<report.id>>]
    /\ UNCHANGED <<now, reviews, vehicles, trips, inflight, favorites, caller, open_sessions>>

(***************************************************************************)
(* SpecReport: report submissions against an initially empty reports       *)
(* table, with the clock advancing in steps of several days                *)
(***************************************************************************)
TickSteps == {4}

Reporters == {1}

InitReport ==
    /\ now = 0
    /\ chargers = TwoChargers
    /\ reports = <<>>
    /\ reviews = <<>>
    /\ vehicles = <<>>
    /\ trips = <<>>
    /\ request = NoRequest
    /\ response = NoResponse
    /\ inflight = NoneInFlight
    /\ favorites = <<>>
    /\ caller = NoCaller
    /\ open_sessions = 0

NextReport ==
    \/ \E d \in TickSteps : Tick(d)
    \/ \E u \in Reporters, c \in ChargerIds, k \in IssueTypes : ReportChargerIssue(u, c, k)

SpecReport == InitReport /\ [][NextReport]_vars

(***************************************************************************)
(* SpecRecompute: update_charger_status run alone on a reports table       *)
(* written by earlier submissions                                          *)
(***************************************************************************)
\* Earlier submissions: day 0 and day 1 for charger 1 (any issue type) and
\* day 1 for charger 2; the recompute runs from day 8 on, when the day-0
\* reports are 8 days old and the day-1 reports exactly 7.
SeedCells ==
    << [created_at |-> 0, charger_id |-> 1, issue_type |-> "broken"],
       [created_at |-> 0, charger_id |-> 1, issue_type |-> "working"],
       [created_at |-> 0, charger_id |-> 1, issue_type |-> "occupied"],
       [created_at |-> 0, charger_id |-> 1, issue_type |-> "under_construction"],
       [created_at |-> 1, charger_id |-> 1, issue_type |-> "broken"],
       [created_at |-> 1, charger_id |-> 1, issue_type |-> "working"],
       [created_at |-> 1, charger_id |-> 1, issue_type |-> "occupied"],
       [created_at |-> 1, charger_id |-> 1, issue_type |-> "under_construction"],
       [created_at |-> 1, charger_id |-> 2, issue_type |-> "broken"] >>

\* the non-decreasing sequences of n cell numbers
RECURSIVE SeedOrders(_)
SeedOrders(n) ==
    IF n = 0 THEN {<<>>}
    ELSE UNION { {Append(s, k) : k \in {j \in DOMAIN SeedCells :
                                           s = <<>> \/ j >= s[Len(s)]}}
                 : s \in SeedOrders(n - 1) }

SeedReports(order) ==
    [i \in DOMAIN order |->
        [id |-> i, charger_id |-> SeedCells[order[i]].charger_id, user_id |-> 1,
         issue_type |-> SeedCells[order[i]].issue_type, status |-> "open",
         created_at |-> SeedCells[order[i]].created_at]]

\* the chargers table left by submitting rows[i], rows[i+1], ... in order
RECURSIVE Replay(_, _, _)
Replay(all_chargers, rows, i) ==
    IF i > Len(rows) THEN all_chargers
    ELSE Replay(report_charger_issue(all_chargers, SubSeq(rows, 1, i - 1), rows[i],
                                     rows[i].created_at).chargers,
                rows, i + 1)

\* the first day on which a day-0 report is out of the window
RecomputeStart == SevenDays + 1

InitRecompute ==
    /\ now = RecomputeStart
    /\ \E n \in 0..MaxSeed : \E order \in SeedOrders(n) :
          /\ reports = SeedReports(order)
          /\ chargers = Replay(TwoChargers, SeedReports(order), 1)
    /\ reviews = <<>>
    /\ vehicles = <<>>
    /\ trips = <<>>
    /\ request = NoRequest
    /\ response = NoResponse
    /\ inflight = NoneInFlight
    /\ favorites = <<>>
    /\ caller = NoCaller
    /\ open_sessions = 0

NextRecompute ==
    \/ Tick(1)
    \/ \E c \in ChargerIds : UpdateChargerStatus(c)

SpecRecompute == InitRecompute /\ [][NextRecompute]_vars

(***************************************************************************)
(* Claims about the status aggregation                                     *)
(***************************************************************************)
StoredCharger(id) == chargers[CHOOSE i \in DOMAIN chargers : chargers[i].id = id]

IsStored(id) == \E i \in DOMAIN chargers : chargers[i].id = id

\* the reports of a charger that are at most seven days old at time t
InWindow(id, t) ==
    {i \in DOMAIN reports : reports[i].charger_id = id
                            /\ t - reports[i].created_at <= SevenDays}

Tally(id, t, k) == Cardinality({i \in InWindow(id, t) : reports[i].issue_type = k})

\* the status the priority chain gives for the in-window reports of a charger
ChainStatus(id, t) ==
    LET b == Tally(id, t, "broken")
        w == Tally(id, t, "working")
        o == Tally(id, t, "occupied")
        u == Tally(id, t, "under_construction")
    IN  CASE b > 0 /\ b >= w -> "broken"
          [] ~(b > 0 /\ b >= w) /\ o > w -> "occupied"
          [] ~(b > 0 /\ b >= w) /\ o <= w /\ u > w -> "under_construction"
          [] ~(b > 0 /\ b >= w) /\ o <= w /\ u <= w /\ w > 0 -> "working"
          [] OTHER -> "unknown"

TallyIs(id, t, b, w, o, u) ==
    /\ Tally(id, t, "broken") = b
    /\ Tally(id, t, "working") = w
    /\ Tally(id, t, "occupied") = o
    /\ Tally(id, t, "under_construction") = u

Recomputed(id) ==
    /\ request.op = "recompute"
    /\ request.charger_id = id
    /\ IsStored(id)

\* C1: after update_charger_status has run alone for a stored charger, the
\* stored status is the one the priority chain gives for the tally of the
\* charger's in-window reports (broken if broken > 0 and broken >= working,
\* else occupied if occupied > working, else under_construction if
\* under_construction > working, else working if working > 0, else unknown);
\* {broken:2, working:2} gives broken, {working:3, occupied:1} gives working
\* and {broken:1, occupied:5} gives broken.
C1_PriorityChain ==
    \A id \in ChargerIds :
        Recomputed(id) =>
            /\ StoredCharger(id).status = ChainStatus(id, request.at)
            /\ TallyIs(id, request.at, 2, 2, 0, 0) => StoredCharger(id).status = "broken"
            /\ TallyIs(id, request.at, 0, 3, 1, 0) => StoredCharger(id).status = "working"
            /\ TallyIs(id, request.at, 1, 0, 5, 0) => StoredCharger(id).status = "broken"

C1_Witness ==
    /\ Recomputed(1)
    /\ TallyIs(1, request.at, 1, 0, 5, 0)
    /\ StoredCharger(1).status = "broken"

C3_ReportThenRecompute ==
    (request.op = "report" /\ response.code = 200) =>
        /\ reports # <<>>
        /\ reports[Len(reports)].id = response.body[1]
        /\ reports[Len(reports)].charger_id = request.charger_id
        /\ reports[Len(reports)].issue_type = request.issue_type
        /\ reports[Len(reports)].created_at = request.at
        /\ Len(reports) \in InWindow(request.charger_id, request.at)
        /\ StoredCharger(request.charger_id).status
              = ChainStatus(request.charger_id, request.at)
        /\ StoredCharger(request.charger_id).status_updated_at = request.at

\* a submission whose new report changes the stored status while an older
\* report of the charger has left the window
C3_Witness ==
    /\ request.op = "report"
    /\ response.code = 200
    /\ request.at = 8
    /\ request.charger_id = 1
    /\ Tally(1, request.at, "working") = 1
    /\ Tally(1, request.at, "broken") = 0
    /\ \E i \in DOMAIN reports : reports[i].charger_id = 1
                                 /\ reports[i].issue_type = "broken"
                                 /\ reports[i].created_at = 0
    /\ StoredCharger(1).status = "working"

(***************************************************************************)
(* GeoDistance and connector matching                                      *)
(***************************************************************************)
\* length of a tenth of a degree of a meridian of radius R = 6371 km, in
\* centimetres: 6371 km * pi / 1800
ArcPerTenthDegree == 1111949

Abs(x) == IF x < 0 THEN -x ELSE x

\* haversine_distance for two points of equal longitude, rounded to 2 decimals
haversine_distance(lat1, lat2) == (ArcPerTenthDegree * Abs(lat2 - lat1) + 500) \div 1000

\* str.lower() on the characters the modelled connector names use
lower(ch) ==
    CASE ch = "C" -> "c"
      [] ch = "S" -> "s"
      [] ch = "T" -> "t"
      [] OTHER -> ch

\* s.lower().replace(" ", "").replace("-", "")
normalize(s) ==
    SelectSeq([i \in DOMAIN s |-> lower(s[i])], LAMBDA ch : ch # " " /\ ch # "-")

\* Python's `needle in hay` for strings
contains(needle, hay) ==
    \E k \in 0..(Len(hay) - Len(needle)) : SubSeq(hay, k + 1, k + Len(needle)) = needle

(***************************************************************************)
(* RouteProvider adapter: calculate_driving_distance                       *)
(***************************************************************************)
\* what the HTTP call to the routing service can produce: a timeout, another
\* transport or HTTP error, a body without features (no route), a body whose
\* first feature lacks the summary fields, or a summary in metres and seconds
ProviderReplies ==
    { [kind |-> "timeout",   distance |-> 0, duration |-> 0],
      [kind |-> "error",     distance |-> 0, duration |-> 0],
      [kind |-> "no_route",  distance |-> 0, duration |-> 0],
      [kind |-> "malformed", distance |-> 0, duration |-> 0],
      [kind |-> "ok", distance |-> 250004, duration |-> 10830],
      [kind |-> "ok", distance |-> 99996,  duration |-> 4499] }

Unasked == [kind |-> "unasked", distance |-> 0, duration |-> 0]

\* outcome "none" is the returned None, "raise" an exception that leaves the
\* function, "ok" the returned dict with distance_km = round(metres / 1000, 2)
\* and duration_minutes = round(seconds / 60, 1)
calculate_driving_distance(reply) ==
    CASE reply.kind \in {"timeout", "error", "no_route"} ->
             [outcome |-> "none", distance_km |-> 0, duration_minutes |-> 0]
      [] reply.kind = "malformed" ->
             [outcome |-> "raise", distance_km |-> 0, duration_minutes |-> 0]
      [] OTHER ->
             [outcome |-> "ok",
              distance_km |-> (reply.distance + 5) \div 10,
              duration_minutes |-> (reply.duration + 3) \div 6]

(***************************************************************************)
(* Vehicles                                                                *)
(***************************************************************************)
CCS == <<"C", "C", "S">>
ccs == <<"c", "c", "s">>
Type2 == <<"T", "y", "p", "e", " ", "2">>
Empty == <<>>

\* the bodies POST /users/me/vehicle accepts (range_km is None or > 0);
\* ranges are in hundredths of a kilometre
VehicleInputs ==
    { [connector_type |-> ccs,   range_km |-> 10000],
      [connector_type |-> ccs,   range_km |-> 30000],
      [connector_type |-> Type2, range_km |-> 10000],
      [connector_type |-> ccs,   range_km |-> NULL],
      [connector_type |-> Empty, range_km |-> 10000] }

\* db.query(Vehicle).filter(Vehicle.user_id == user.id).first(), as 0 or 1 rows
user_vehicle(all_vehicles, user_id) ==
    LET mine == SelectSeq(all_vehicles, LAMBDA v : v.user_id = user_id)
    IN  IF mine = <<>> THEN <<>> ELSE <<Head(mine)>>

\* POST /users/me/vehicle by an authenticated member
AddOrUpdateVehicle(user_id, vehicle_data) ==
    /\ LET found == {i \in DOMAIN vehicles : vehicles[i].user_id = user_id}
           first == CHOOSE i \in found : \A j \in found : i <= j
       IN  IF found # {}
           THEN /\ vehicles' = [vehicles EXCEPT
                                   ![first].connector_type = vehicle_data.connector_type,
                                   ![first].range_km = vehicle_data.range_km]
                /\ response' = [code |-> 200, detail |-> "Vehicle saved successfully",
                                body |-> <<vehicles[first].id>>]
           ELSE /\ vehicles' = Append(vehicles,
                                      [id |-> Len(vehicles) + 1, user_id |-> user_id,
                                       connector_type |-> vehicle_data.connector_type,
                                       range_km |-> vehicle_data.range_km])
                /\ response' = [code |-> 200, detail |-> "Vehicle saved successfully",
                                body |-> <<Len(vehicles) + 1>>]
    /\ request' = [op |-> "vehicle", user_id |-> user_id, vehicle_data |-> vehicle_data]
    /\ UNCHANGED <<now, chargers, reports, reviews, trips, inflight,
                   favorites, caller, open_sessions>>

(***************************************************************************)
(* TripPlanner: plan_trip                                                  *)
(***************************************************************************)
\* the (start latitude, end latitude) pairs a request may carry
Legs == { <<340, 360>>, <<360, 370>> }

TripChargers ==
    << NewCharger(1, 353, CCS),
       NewCharger(2, 351, <<"C", "C", "S", "-", "2">>),
       NewCharger(3, 365, Type2) >>

VehicleUsableIgnoringRange(mine) ==
    /\ mine # <<>>
    /\ mine[1].connector_type # <<>>

\* the negation of `not vehicle or not vehicle.range_km or not vehicle.connector_type`
vehicle_usable(mine) ==
    /\ mine # <<>>
    /\ mine[1].range_km # NULL
    /\ mine[1].range_km # 0
    /\ mine[1].connector_type # <<>>

RouteWithHaversineFallback(reply, start_lat, end_lat) ==
    IF calculate_driving_distance(reply).outcome = "none"
    THEN [outcome |-> "ok", distance_km |-> haversine_distance(start_lat, end_lat),
          duration_minutes |-> (12 * haversine_distance(start_lat, end_lat) + 50) \div 100]
    ELSE calculate_driving_distance(reply)

\* the call of calculate_driving_distance for the (start, end) leg
primary_leg(reply, start_lat, end_lat) == calculate_driving_distance(reply)

NearestStationAsWaypoint(all_chargers, mine, start_lat, end_lat, driving) ==
    IF driving.distance_km > mine[1].range_km
    THEN LET mid == (start_lat + end_lat) \div 2
             best == CHOOSE i \in DOMAIN all_chargers :
                        \A j \in DOMAIN all_chargers :
                            haversine_distance(mid, all_chargers[i].latitude)
                              <= haversine_distance(mid, all_chargers[j].latitude)
         IN  << [charger_id |-> all_chargers[best].id,
                 latitude |-> all_chargers[best].latitude] >>
    ELSE <<>>

\* the waypoints list handed to Trip(...): `waypoints = []`
plan_waypoints(all_chargers, mine, start_lat, end_lat, driving) == <<>>

TripWithSwappedTotals(id, user_id, start_lat, end_lat, waypoints, driving, t) ==
    [id |-> id, user_id |-> user_id, start_lat |-> start_lat, end_lat |-> end_lat,
     waypoints |-> waypoints,
     total_distance_km |-> driving.duration_minutes,
     estimated_duration_minutes |-> driving.distance_km,
     created_at |-> t]

\* the Trip row built from the route result; the waypoints column holds the
\* JSON text of the list, written here as the list it encodes
new_trip(id, user_id, start_lat, end_lat, waypoints, driving, t) ==
    [id |-> id, user_id |-> user_id, start_lat |-> start_lat, end_lat |-> end_lat,
     waypoints |-> waypoints,
     total_distance_km |-> driving.distance_km,
     estimated_duration_minutes |-> driving.duration_minutes,
     created_at |-> t]

\* POST /trips/plan by an authenticated member; reply is what the routing
\* service answers if it is asked
PlanTrip(user_id, leg, reply) ==
    LET mine == user_vehicle(vehicles, user_id)
        driving == primary_leg(reply, leg[1], leg[2])
        asked == vehicle_usable(mine)
    IN  /\ next_id(trips) <= MaxTrips
        /\ request' = [op |-> "plan_trip", user_id |-> user_id,
                       start_lat |-> leg[1], end_lat |-> leg[2],
                       route_requested |-> asked,
                       reply |-> IF asked THEN reply ELSE Unasked]
        /\ IF ~asked
           THEN /\ response' = [code |-> 400,
                                detail |-> "Vehicle with range and connector type required",
                                body |-> <<>>]
                /\ UNCHANGED trips
           ELSE IF driving.outcome = "raise"
           THEN /\ response' = [code |-> 500, detail |-> "Internal Server Error",
                                body |-> <<>>]
                /\ UNCHANGED trips
           ELSE IF driving.outcome = "none"
           THEN /\ response' = [code |-> 400, detail |-> "Route calculation failed",
                                body |-> <<>>]
                /\ UNCHANGED trips
           ELSE LET waypoints == plan_waypoints(chargers, mine, leg[1], leg[2], driving)
                    trip == new_trip(next_id(trips), user_id, leg[1], leg[2],
                                     waypoints, driving, now)
                IN  /\ trips' = Append(trips, trip)
                    /\ response' = [code |-> 200, detail |-> "", body |-> <<trip>>]
        /\ UNCHANGED <<now, chargers, reports, reviews, vehicles, inflight,
                       favorites, caller, open_sessions>>

(***************************************************************************)
(* SpecTrip: members register vehicles and plan trips                      *)
(***************************************************************************)
InitTrip ==
    /\ now = 0
    /\ chargers = TripChargers
    /\ reports = <<>>
    /\ reviews = <<>>
    /\ vehicles = <<>>
    /\ trips = <<>>
    /\ request = NoRequest
    /\ response = NoResponse
    /\ inflight = NoneInFlight
    /\ favorites = <<>>
    /\ caller = NoCaller
    /\ open_sessions = 0

NextTrip ==
    \/ \E u \in UserIds, v \in VehicleInputs : AddOrUpdateVehicle(u, v)
    \/ \E u \in UserIds, leg \in Legs, reply \in ProviderReplies : PlanTrip(u, leg, reply)

SpecTrip == InitTrip /\ [][NextTrip]_vars

(***************************************************************************)
(* Claims about the trip planner                                           *)
(***************************************************************************)
FiftyKm == 50 * 100

\* the first vehicle row of a user, if any
VehicleRows(u) == {i \in DOMAIN vehicles : vehicles[i].user_id = u}

FirstVehicle(u) == vehicles[CHOOSE i \in VehicleRows(u) : \A j \in VehicleRows(u) : i <= j]

LacksVehicleData(u) ==
    \/ VehicleRows(u) = {}
    \/ FirstVehicle(u).range_km = NULL
    \/ FirstVehicle(u).connector_type = <<>>

\* km (in hundredths) and minutes (in tenths) are the provider's metres and
\* seconds rounded to the nearest unit
IsRounded(value, raw, unit) ==
    /\ 2 * unit * value <= 2 * raw + unit
    /\ 2 * raw - unit <= 2 * unit * value

RoundedTo(raw, unit) ==
    {value \in {raw \div unit, raw \div unit + 1} : IsRounded(value, raw, unit)}

\* the stations compatible with a connector within 50 km of the midpoint
NearMidpoint(connector, start_lat, end_lat) ==
    {i \in DOMAIN chargers :
        /\ contains(normalize(connector), normalize(chargers[i].connector_type))
        /\ haversine_distance((start_lat + end_lat) \div 2, chargers[i].latitude)
              <= FiftyKm}

Planned ==
    /\ request.op = "plan_trip"
    /\ response.code = 200

LastTrip == trips[Len(trips)]

\* C4: when the route is longer than the vehicle's range and a compatible
\* station lies within 50 km of the midpoint, the persisted trip has exactly
\* one waypoint, referencing the nearest such station.
C4_OneWaypointAtNearest ==
    (/\ Planned
     /\ LastTrip.total_distance_km > FirstVehicle(request.user_id).range_km
     /\ NearMidpoint(FirstVehicle(request.user_id).connector_type,
                     request.start_lat, request.end_lat) # {})
    => LET near == NearMidpoint(FirstVehicle(request.user_id).connector_type,
                                request.start_lat, request.end_lat)
           mid == (request.start_lat + request.end_lat) \div 2
       IN  /\ Len(LastTrip.waypoints) = 1
           /\ \E i \in near :
                 /\ \A j \in near : haversine_distance(mid, chargers[i].latitude)
                                      <= haversine_distance(mid, chargers[j].latitude)
                 /\ LastTrip.waypoints[1].charger_id = chargers[i].id

\* a plan_trip step of a user whose vehicle has both fields, answered by the
\* routing service with a route
RoutedStep ==
    /\ request'.op = "plan_trip"
    /\ ~LacksVehicleData(request'.user_id)
    /\ request'.reply.kind = "ok"

\* C5: a plan_trip whose route distance does not exceed the vehicle's range
\* persists one new trip with no waypoints whose total_distance_km and
\* estimated_duration_minutes are the route provider's values.
C5_WithinRange ==
    [][ (/\ RoutedStep
         /\ \E km \in RoundedTo(request'.reply.distance, 10) :
               km <= FirstVehicle(request'.user_id).range_km)
        => /\ response'.code = 200
           /\ Len(trips') = Len(trips) + 1
           /\ SubSeq(trips', 1, Len(trips)) = trips
           /\ trips'[Len(trips')].user_id = request'.user_id
           /\ trips'[Len(trips')].waypoints = <<>>
           /\ IsRounded(trips'[Len(trips')].total_distance_km, request'.reply.distance, 10)
           /\ IsRounded(trips'[Len(trips')].estimated_duration_minutes,
                        request'.reply.duration, 6)
           /\ response'.body = <<trips'[Len(trips')]>> ]_vars

\* a route of exactly the vehicle's range
C5_Witness ==
    /\ Planned
    /\ request.reply.distance = 99996
    /\ FirstVehicle(request.user_id).range_km = 10000
    /\ Len(trips) = 2
    /\ LastTrip.total_distance_km = 10000
    /\ LastTrip.estimated_duration_minutes = 750
    /\ LastTrip.waypoints = <<>>

\* C6: a plan_trip whose route is longer than the vehicle's range, with no
\* compatible station within 50 km of the midpoint, does not fail: it
\* persists and returns one new trip with no waypoints.
C6_NoStationStillPlanned ==
    [][ (/\ RoutedStep
         /\ \E km \in RoundedTo(request'.reply.distance, 10) :
               km > FirstVehicle(request'.user_id).range_km
         /\ NearMidpoint(FirstVehicle(request'.user_id).connector_type,
                         request'.start_lat, request'.end_lat) = {})
        => /\ response'.code = 200
           /\ Len(trips') = Len(trips) + 1
           /\ SubSeq(trips', 1, Len(trips)) = trips
           /\ trips'[Len(trips')].waypoints = <<>>
           /\ response'.body = <<trips'[Len(trips')]>> ]_vars

C6_Witness ==
    /\ Planned
    /\ LastTrip.total_distance_km > FirstVehicle(request.user_id).range_km
    /\ FirstVehicle(request.user_id).connector_type = Type2
    /\ request.start_lat = 340
    /\ NearMidpoint(Type2, request.start_lat, request.end_lat) = {}
    /\ LastTrip.waypoints = <<>>
    /\ response.body = <<LastTrip>>

\* C7: a plan_trip by a user who has no vehicle, or whose vehicle lacks
\* connector_type or range_km, is answered 400 with the vehicle message, no
\* route request is made and the trips table is unchanged.
C7_VehicleRequired ==
    [][ (request'.op = "plan_trip" /\ LacksVehicleData(request'.user_id))
        => /\ response'.code = 400
           /\ response'.detail = "Vehicle with range and connector type required"
           /\ ~request'.route_requested
           /\ request'.reply.kind = "unasked"
           /\ trips' = trips ]_vars

\* the rejected user has a vehicle without range_km while the other user has
\* a complete vehicle and a stored trip
C7_Witness ==
    /\ request.op = "plan_trip"
    /\ response.code = 400
    /\ response.detail = "Vehicle with range and connector type required"
    /\ VehicleRows(request.user_id) # {}
    /\ FirstVehicle(request.user_id).range_km = NULL
    /\ \E u \in UserIds : u # request.user_id /\ ~LacksVehicleData(u)
    /\ trips # <<>>

InsertBeforeEqual(sorted, item) ==
    LET k == Cardinality({i \in DOMAIN sorted :
                             sorted[i].straight_distance_km < item.straight_distance_km})
    IN  SubSeq(sorted, 1, k) \o <<item>> \o SubSeq(sorted, k + 1, Len(sorted))

\* one step of the stable sort: item goes after every element whose key is
\* not larger
insert_sorted(sorted, item) ==
    LET k == Cardinality({i \in DOMAIN sorted :
                             sorted[i].straight_distance_km <= item.straight_distance_km})
    IN  SubSeq(sorted, 1, k) \o <<item>> \o SubSeq(sorted, k + 1, Len(sorted))

\* chargers_with_distance.sort(key=lambda x: x["straight_distance_km"])
RECURSIVE sort_by_distance(_)
sort_by_distance(items) ==
    IF items = <<>> THEN <<>>
    ELSE insert_sorted(sort_by_distance(SubSeq(items, 1, Len(items) - 1)),
                       items[Len(items)])

SliceOneTooMany(items, limit) ==
    SubSeq(items, 1, IF limit + 1 < Len(items) THEN limit + 1 ELSE Len(items))

\* items[:limit]
slice(items, limit) ==
    SubSeq(items, 1, IF limit < Len(items) THEN limit ELSE Len(items))

\* the ratings of the reviews of a charger
RECURSIVE rating_sum(_, _)
rating_sum(all_reviews, charger_id) ==
    IF all_reviews = <<>> THEN 0
    ELSE (IF Head(all_reviews).charger_id = charger_id THEN Head(all_reviews).rating ELSE 0)
         + rating_sum(Tail(all_reviews), charger_id)

review_count(all_reviews, charger_id) ==
    Len(SelectSeq(all_reviews, LAMBDA r : r.charger_id = charger_id))

\* `min_rating and (avg_rating is None or avg_rating < min_rating)`, with
\* min_rating in tenths of a star
below_min_rating(all_reviews, charger_id, min_rating) ==
    /\ min_rating # NULL
    /\ min_rating # 0
    /\ \/ review_count(all_reviews, charger_id) = 0
       \/ 10 * rating_sum(all_reviews, charger_id)
             < min_rating * review_count(all_reviews, charger_id)

\* the dict appended to result_chargers; avg_rating is in hundredths
ranked_station(all_reviews, item) ==
    LET n == review_count(all_reviews, item.charger.id)
    IN  [id |-> item.charger.id,
         latitude |-> item.charger.latitude,
         connector_type |-> item.charger.connector_type,
         status |-> item.charger.status,
         distance_km |-> item.straight_distance_km,
         duration_minutes |-> (12 * item.straight_distance_km + 50) \div 100,
         distance_type |-> "straight_line",
         avg_rating |-> IF n = 0 THEN NULL
                        ELSE (200 * rating_sum(all_reviews, item.charger.id) + n)
                                \div (2 * n),
         review_count |-> n]

\* the loop over chargers_with_distance[:limit]
RECURSIVE result_chargers(_, _, _)
result_chargers(all_reviews, items, min_rating) ==
    IF items = <<>> THEN <<>>
    ELSE IF below_min_rating(all_reviews, Head(items).charger.id, min_rating)
         THEN result_chargers(all_reviews, Tail(items), min_rating)
         ELSE <<ranked_station(all_reviews, Head(items))>>
              \o result_chargers(all_reviews, Tail(items), min_rating)

IgnoringRadius(measured, radius_km) == measured

\* the candidates kept by `if straight_distance <= radius_km`
within_radius(measured, radius_km) ==
    SelectSeq(measured, LAMBDA item : item.straight_distance_km <= radius_km)

\* the response of GET /chargers/nearby; connector_type <<>> , status "" and
\* min_rating NULL stand for an absent query parameter
get_nearby_chargers(all_chargers, all_reviews, q) ==
    LET ct == normalize(q.connector_type)
        by_connector ==
            IF q.connector_type # <<>>
            THEN SelectSeq(all_chargers,
                           LAMBDA c : c.connector_type # <<>>
                                      /\ contains(ct, normalize(c.connector_type)))
            ELSE all_chargers
        by_status ==
            IF q.status # ""
            THEN SelectSeq(by_connector, LAMBDA c : c.status = q.status)
            ELSE by_connector
        measured ==
            [i \in DOMAIN by_status |->
                [charger |-> by_status[i],
                 straight_distance_km |-> haversine_distance(q.lat, by_status[i].latitude)]]
        chargers_with_distance == within_radius(measured, q.radius_km)
        ranked == result_chargers(all_reviews,
                                  slice(sort_by_distance(chargers_with_distance), q.limit),
                                  q.min_rating)
    IN  IF by_status = <<>>
        THEN [code |-> 404, detail |-> "No chargers found matching criteria", body |-> <<>>,
              total_within_radius |-> 0, returned_with_routes |-> 0]
        ELSE IF chargers_with_distance = <<>>
        THEN [code |-> 404, detail |-> "No chargers found within radius", body |-> <<>>,
              total_within_radius |-> 0, returned_with_routes |-> 0]
        ELSE [code |-> 200, detail |-> "", body |-> ranked,
              total_within_radius |-> Len(chargers_with_distance),
              returned_with_routes |-> Len(ranked)]

\* what the routing service would answer during a nearby search
RoutingStates ==
    { [kind |-> "timeout", distance |-> 0, duration |-> 0],
      [kind |-> "ok", distance |-> 250004, duration |-> 10830] }

\* GET /chargers/nearby; routing is what the routing service would answer if
\* it were asked during the request: the handler never calls
\* calculate_driving_distance
GetNearbyChargers(q, routing) ==
    /\ request' = [op |-> "nearby", q |-> q, routing |-> routing, route_requests |-> 0]
    /\ response' = get_nearby_chargers(chargers, reviews, q)
    /\ UNCHANGED <<now, chargers, reports, reviews, vehicles, trips, inflight,
                   favorites, caller, open_sessions>>

(***************************************************************************)
(* SpecNearby: nearby searches over a database written by earlier          *)
(* report and review submissions                                           *)
(***************************************************************************)
\* chargers 2 and 4 are equally far from latitude 35.0
NearbyChargers ==
    << NewCharger(1, 353, CCS),
       NewCharger(2, 351, <<"C", "C", "S", "-", "2">>),
       NewCharger(3, 365, Type2),
       NewCharger(4, 349, Type2) >>

NewReview(id, user_id, charger_id, rating) ==
    [id |-> id, user_id |-> user_id, charger_id |-> charger_id, rating |-> rating,
     helpful_count |-> 0]

\* reviews tables left by earlier add_review calls (one review per user and charger)
ReviewTables ==
    { <<>>,
      << NewReview(1, 1, 2, 3), NewReview(2, 2, 2, 4), NewReview(3, 1, 4, 4) >>,
      << NewReview(1, 1, 1, 2), NewReview(2, 2, 4, 5), NewReview(3, 1, 3, 4) >> }

\* earlier submissions: one report each for chargers 1, 2 and 4, none for 3
NearbyReports(k1, k2, k4) ==
    << [id |-> 1, charger_id |-> 1, user_id |-> 1, issue_type |-> k1,
        status |-> "open", created_at |-> 0],
       [id |-> 2, charger_id |-> 2, user_id |-> 1, issue_type |-> k2,
        status |-> "open", created_at |-> 0],
       [id |-> 3, charger_id |-> 4, user_id |-> 2, issue_type |-> k4,
        status |-> "open", created_at |-> 0] >>

\* the query parameters: lat within [-90, 90], limit within 1..27 (here up to
\* MaxLimit), radius_km within [1, 500] km, min_rating within [0, 5] stars
Queries ==
    [lat : {340, 350},
     connector_type : {Empty, ccs, Type2},
     status : {"", "working"},
     min_rating : {NULL, 0, 35},
     limit : 1..MaxLimit,
     radius_km : {100, 2000, 50000}]

InitNearby ==
    /\ now = 0
    /\ \E k1 \in {"working", "broken"}, k2 \in {"working"}, k4 \in {"working"} :
          /\ reports = NearbyReports(k1, k2, k4)
          /\ chargers = Replay(NearbyChargers, NearbyReports(k1, k2, k4), 1)
    /\ reviews \in ReviewTables
    /\ vehicles = <<>>
    /\ trips = <<>>
    /\ request = NoRequest
    /\ response = NoResponse
    /\ inflight = NoneInFlight
    /\ favorites = <<>>
    /\ caller = NoCaller
    /\ open_sessions = 0

NextNearby == \E q \in Queries, routing \in RoutingStates : GetNearbyChargers(q, routing)

SpecNearby == InitNearby /\ [][NextNearby]_vars

(***************************************************************************)
(* Claims about the nearby search                                          *)
(***************************************************************************)
Answered ==
    /\ request.op = "nearby"
    /\ response.code = 200

\* the position of a charger in the order the repository returns the rows
RowOf(id) == CHOOSE i \in DOMAIN chargers : chargers[i].id = id

\* C9: the nearest_chargers list is in ascending order of distance_km, and
\* entries of equal distance are in the order the repository returned them.
C9_SortedStable ==
    Answered =>
        \A i \in DOMAIN response.body : \A j \in DOMAIN response.body :
            i < j =>
                \/ response.body[i].distance_km < response.body[j].distance_km
                \/ /\ response.body[i].distance_km = response.body[j].distance_km
                   /\ RowOf(response.body[i].id) < RowOf(response.body[j].id)

\* chargers 2 and 4, equally far, are both returned, followed by a farther one
C9_Witness ==
    /\ Answered
    /\ Len(response.body) = 3
    /\ response.body[1].id = 2
    /\ response.body[2].id = 4
    /\ response.body[1].distance_km = response.body[2].distance_km
    /\ response.body[2].distance_km < response.body[3].distance_km

\* C10: the answer never holds more than limit entries, and never more than
\* min(2 * limit, 10) of them have distance_type driving.
C10_AtMostLimit ==
    Answered =>
        /\ Len(response.body) <= request.q.limit
        /\ Cardinality({i \in DOMAIN response.body :
                           response.body[i].distance_type = "driving"})
              <= (IF 2 * request.q.limit < 10 THEN 2 * request.q.limit ELSE 10)

\* more stations lie within the radius than the limit lets through
C10_Witness ==
    /\ Answered
    /\ response.total_within_radius > request.q.limit
    /\ Len(response.body) = request.q.limit
    /\ request.q.limit >= 2

(***************************************************************************)
(* SpecFleet: nearby searches over the full network of stations, with     *)
(* limit up to the largest value the query accepts                         *)
(***************************************************************************)
\* the seeded network and the upper end of `limit: int = Query(5, ge=1, le=27)`
StationCount == 27

\* the stations, each at a latitude of its own between 33.5 and 36.1
FleetChargers ==
    [i \in 1..StationCount |-> NewCharger(i, 335 + ((i * 7) % StationCount), CCS)]

FleetLimits == {1, 3, 5, 6, 10, 11, 20, StationCount}

FleetQueries ==
    [lat : {340, 345, 350, 360},
     connector_type : {Empty},
     status : {""},
     min_rating : {NULL},
     limit : FleetLimits,
     radius_km : {4000, 50000}]

InitFleet ==
    /\ now = 0
    /\ chargers = FleetChargers
    /\ reports = <<>>
    /\ reviews = <<>>
    /\ vehicles = <<>>
    /\ trips = <<>>
    /\ request = NoRequest
    /\ response = NoResponse
    /\ inflight = NoneInFlight
    /\ favorites = <<>>
    /\ caller = NoCaller
    /\ open_sessions = 0

NextFleet ==
    \E q \in FleetQueries, routing \in RoutingStates : GetNearbyChargers(q, routing)

SpecFleet == InitFleet /\ [][NextFleet]_vars

\* the size of the routing subset for a given limit: min(2 * limit, 10)
RoutingSubsetSize(limit) == IF 2 * limit < 10 THEN 2 * limit ELSE 10

\* the stations within the radius of the request that come before the given
\* answer entry in ascending distance, ties in repository order
Ahead(entry) ==
    { i \in DOMAIN chargers :
        LET d == haversine_distance(request.q.lat, chargers[i].latitude)
        IN  /\ d <= request.q.radius_km
            /\ \/ d < entry.distance_km
               \/ d = entry.distance_km /\ i < RowOf(entry.id) }

Routed == calculate_driving_distance(request.routing)

\* C12: each returned station carries the driving distance and duration of
\* the routing service with distance_type driving when the service answers,
\* and the straight-line distance with duration (km / 50) * 60 and
\* distance_type straight_line when it fails; a failure never fails the
\* request.
C12_DrivingWhenRouted ==
    Answered =>
        \A i \in DOMAIN response.body :
            LET entry == response.body[i]
                straight == haversine_distance(request.q.lat, entry.latitude)
            IN  IF Routed.outcome = "ok"
                THEN /\ entry.distance_type = "driving"
                     /\ entry.distance_km = Routed.distance_km
                     /\ entry.duration_minutes = Routed.duration_minutes
                ELSE /\ entry.distance_type = "straight_line"
                     /\ entry.distance_km = straight
                     /\ entry.duration_minutes = (12 * straight + 50) \div 100

\* the rows of the stations that pass the connector and status filters of
\* the request
Candidates ==
    { i \in DOMAIN chargers :
        /\ request.q.connector_type # <<>> =>
               /\ chargers[i].connector_type # <<>>
               /\ contains(normalize(request.q.connector_type),
                           normalize(chargers[i].connector_type))
        /\ request.q.status # "" => chargers[i].status = request.q.status }

\* the candidates no farther than radius_km from the request's position
CandidatesInRadius ==
    { i \in Candidates :
        haversine_distance(request.q.lat, chargers[i].latitude) <= request.q.radius_km }

\* C13: every returned station lies within radius_km of the request's
\* position, and the answer is 404 whenever no candidate lies within it.
C13_WithinRadius ==
    request.op = "nearby" =>
        /\ \A i \in DOMAIN response.body :
              haversine_distance(request.q.lat, response.body[i].latitude)
                  <= request.q.radius_km
        /\ CandidatesInRadius = {} => response.code = 404

\* an answer that leaves out a candidate beyond the radius although the limit
\* had room for it
C13_Witness ==
    /\ Answered
    /\ request.q.min_rating = NULL
    /\ response.body # <<>>
    /\ Len(response.body) < request.q.limit
    /\ Cardinality(Candidates) >= request.q.limit

\* the candidates within the radius that also pass the request's min_rating:
\* with a non-zero min_rating, a station needs reviews whose mean reaches it
Passing ==
    { i \in CandidatesInRadius :
        (request.q.min_rating # NULL /\ request.q.min_rating # 0) =>
            /\ review_count(reviews, chargers[i].id) > 0
            /\ 10 * rating_sum(reviews, chargers[i].id)
                  >= request.q.min_rating * review_count(reviews, chargers[i].id) }

Returned == { RowOf(response.body[i].id) : i \in DOMAIN response.body }

\* C14: the connector, status and min_rating filters come before ranking and
\* truncation: the answer is the first limit stations, in ascending distance,
\* among those that pass all three filters and the radius.
C14_FiltersBeforeTruncation ==
    Answered =>
        /\ Returned \subseteq Passing
        /\ Len(response.body) =
              (IF Cardinality(Passing) < request.q.limit
               THEN Cardinality(Passing) ELSE request.q.limit)
        /\ \A i \in Passing \ Returned : \A j \in Returned :
              haversine_distance(request.q.lat, chargers[j].latitude)
                  <= haversine_distance(request.q.lat, chargers[i].latitude)

\* C15: the answer is 404 whenever no station survives the filters,
\* min_rating included, and the radius; it is never 200 with an empty list.
C15_NeverEmptyList ==
    request.op = "nearby" =>
        /\ Passing = {} => response.code = 404
        /\ response.code = 200 => response.body # <<>>

(***************************************************************************)
(* Claims about the routing service's failures                             *)
(***************************************************************************)
\* C16: every failure of the routing service (timeout, network error, HTTP
\* error, no route, malformed payload) is caught in
\* calculate_driving_distance and becomes its result None: no exception
\* leaves it, so the trip planner answers 400 "Route calculation failed".
C16_FailuresBecomeNone ==
    (request.op = "plan_trip" /\ request.route_requested
        /\ request.reply.kind # "ok") =>
        /\ calculate_driving_distance(request.reply).outcome = "none"
        /\ response.code = 400
        /\ response.detail = "Route calculation failed"

(***************************************************************************)
(* Claims about report submissions and the stored status                   *)
(***************************************************************************)
\* C20: a report for a station that does not exist is answered 404, stores
\* no report and changes no station's status.
C20_UnknownStationRejected ==
    [][(request'.op = "report" /\ ~IsStored(request'.charger_id)) =>
           /\ response'.code = 404
           /\ reports' = reports
           /\ chargers' = chargers]_vars

\* a report for the missing station 3 rejected after reports were stored
C20_Witness ==
    /\ request.op = "report"
    /\ ~IsStored(request.charger_id)
    /\ response.code = 404
    /\ reports # <<>>

(***************************************************************************)
(* SpecStatus: report submissions, status reads, nearby searches and       *)
(* vehicle updates while the clock advances                                *)
(***************************************************************************)
\* the body of GET /chargers/{charger_id}/status at time t
get_charger_status(all_chargers, all_reports, charger_id, t) ==
    LET recent == recent_reports(all_reports, charger_id, t)
        charger == all_chargers[CHOOSE i \in RowsById(all_chargers, charger_id) : TRUE]
    IN  IF ~charger_found(all_chargers, charger_id)
        THEN [code |-> 404, detail |-> "Charger not found", body |-> <<>>,
              current_status |-> "", status_updated_at |-> 0,
              broken |-> 0, working |-> 0, total |-> 0]
        ELSE [code |-> 200, detail |-> "", body |-> <<>>,
              current_status |-> charger.status,
              status_updated_at |-> charger.status_updated_at,
              broken |-> status_counts(recent, "broken"),
              working |-> status_counts(recent, "working"),
              total |-> Len(recent)]

GetChargerStatusRecomputing(charger_id) ==
    LET fresh == update_charger_status(chargers, reports, charger_id, now)
    IN  /\ request' = [op |-> "status", charger_id |-> charger_id, at |-> now]
        /\ chargers' = fresh
        /\ response' = get_charger_status(fresh, reports, charger_id, now)
        /\ UNCHANGED <<now, reports, reviews, vehicles, trips, inflight,
                       favorites, caller, open_sessions>>

\* GET /chargers/{charger_id}/status
GetChargerStatus(charger_id) ==
    /\ request' = [op |-> "status", charger_id |-> charger_id, at |-> now]
    /\ response' = get_charger_status(chargers, reports, charger_id, now)
    /\ UNCHANGED <<now, chargers, reports, reviews, vehicles, trips, inflight,
                   favorites, caller, open_sessions>>

StatusQueries ==
    [lat : {350}, connector_type : {Empty}, status : {"working"},
     min_rating : {NULL}, limit : {1}, radius_km : {50000}]

StatusVehicles == { v \in VehicleInputs : v.connector_type = ccs /\ v.range_km = 30000 }

NextStatus ==
    \/ \E d \in TickSteps : Tick(d)
    \/ \E u \in Reporters, c \in ChargerIds, k \in {"working", "broken"} :
          ReportChargerIssue(u, c, k)
    \/ \E c \in ChargerIds : GetChargerStatus(c)
    \/ \E q \in StatusQueries, routing \in RoutingStates : GetNearbyChargers(q, routing)
    \/ \E u \in Reporters, v \in StatusVehicles : AddOrUpdateVehicle(u, v)

SpecStatus == InitReport /\ [][NextStatus]_vars

\* C19: only a report submission recomputes a station's status: every other
\* operation leaves the stored status and its timestamp as they are, so a
\* status whose reports have aged out stays until a new report arrives, and
\* GET /chargers/{id}/status answers the stored status without recomputing.
C19_OnlyReportsRecompute ==
    [][/\ \A i \in DOMAIN chargers :
             chargers'[i] # chargers[i] =>
                 /\ request'.op = "report"
                 /\ request'.charger_id = chargers[i].id
                 /\ response'.code = 200
       /\ (request'.op = "status" /\ response'.code = 200) =>
             response'.current_status = StoredCharger(request'.charger_id).status
      ]_vars

\* a status read that answers working although no report of the station is
\* within the window any more
C19_Witness ==
    /\ request.op = "status"
    /\ request.at = now
    /\ response.code = 200
    /\ response.current_status = "working"
    /\ response.total = 0
    /\ ChainStatus(request.charger_id, now) = "unknown"

(***************************************************************************)
(* SpecRace: report submissions served at once, one step per database      *)
(* transaction: the report is stored and committed, the recompute reads    *)
(* the reports, the recompute commits the status                           *)
(***************************************************************************)
\* the status update_charger_status assigns from what it reads at time t
compute_status(all_reports, charger_id, t) ==
    LET recent == recent_reports(all_reports, charger_id, t)
    IN  IF recent = <<>> THEN "unknown" ELSE resolve_status(recent)

\* db.commit() of the recompute: the row takes the status and the timestamp
\* assigned in the session, whatever another request committed in between;
\* no lock is taken and nothing is retried
commit_status(all_chargers, charger_id, status, stamp) ==
    [i \in DOMAIN all_chargers |->
        IF all_chargers[i].id = charger_id
        THEN [all_chargers[i] EXCEPT !.status = status, !.status_updated_at = stamp]
        ELSE all_chargers[i]]

InFlightFor(charger_id) ==
    { w \in Workers : inflight[w].pc # "idle" /\ inflight[w].charger_id = charger_id }

\* report_charger_issue up to db.refresh(report): 404 for a missing charger,
\* otherwise the report is stored and committed
ReportStore(w, user_id, charger_id, issue_type) ==
    /\ inflight[w].pc = "idle"
    /\ Len(reports) < MaxReports
    /\ IF ~charger_found(chargers, charger_id)
       THEN /\ request' = [op |-> "report", charger_id |-> charger_id,
                           user_id |-> user_id, issue_type |-> issue_type, at |-> now]
            /\ response' = [code |-> 404, detail |-> "Charger not found", body |-> <<>>]
            /\ UNCHANGED <<reports, inflight>>
       ELSE /\ reports' = Append(reports,
                                 [id |-> Len(reports) + 1, charger_id |-> charger_id,
                                  user_id |-> user_id, issue_type |-> issue_type,
                                  status |-> "open", created_at |-> now])
            /\ inflight' =
                  [v \in Workers |->
                      IF v = w
                      THEN [Idle EXCEPT
                               !.pc = "stored", !.charger_id = charger_id,
                               !.user_id = user_id, !.issue_type = issue_type,
                               !.report_id = Len(reports) + 1,
                               !.alone = (InFlightFor(charger_id) = {}),
                               !.wrong_before =
                                   (chargers[CHOOSE i \in RowsById(chargers, charger_id) : TRUE].status
                                       # compute_status(reports, charger_id, now))]
                      ELSE IF v \in InFlightFor(charger_id)
                           THEN [inflight[v] EXCEPT !.alone = FALSE]
                           ELSE inflight[v]]
            /\ UNCHANGED <<request, response>>
    /\ UNCHANGED <<now, chargers, reviews, vehicles, trips, favorites, caller, open_sessions>>

ReportReadBeforeStore(w) ==
    /\ inflight[w].pc = "stored"
    /\ inflight' = [inflight EXCEPT
                       ![w].pc = "computed",
                       ![w].seen = Len(reports),
                       ![w].computed =
                           compute_status(SubSeq(reports, 1, inflight[w].report_id - 1),
                                          inflight[w].charger_id, now),
                       ![w].stamp = now]
    /\ UNCHANGED <<now, chargers, reports, reviews, vehicles, trips, request, response,
                   favorites, caller, open_sessions>>

\* update_charger_status up to the assignments: the reports are read and the
\* status and timestamp are set on the session's charger object
ReportRead(w) ==
    /\ inflight[w].pc = "stored"
    /\ inflight' = [inflight EXCEPT
                       ![w].pc = "computed",
                       ![w].seen = Len(reports),
                       ![w].computed = compute_status(reports, inflight[w].charger_id, now),
                       ![w].stamp = now]
    /\ UNCHANGED <<now, chargers, reports, reviews, vehicles, trips, request, response,
                   favorites, caller, open_sessions>>

ReportCommitRereading(w) ==
    /\ inflight[w].pc = "computed"
    /\ chargers' = commit_status(chargers, inflight[w].charger_id,
                                 compute_status(reports, inflight[w].charger_id, now), now)
    /\ request' = [op |-> "report", charger_id |-> inflight[w].charger_id,
                   user_id |-> inflight[w].user_id, issue_type |-> inflight[w].issue_type,
                   at |-> inflight[w].stamp, submission |-> inflight[w]]
    /\ response' = [code |-> 200, detail |-> "Report submitted successfully",
                    body |-> <<inflight[w].report_id>>]
    /\ inflight' = [inflight EXCEPT ![w] = Idle]
    /\ UNCHANGED <<now, reports, reviews, vehicles, trips, favorites, caller, open_sessions>>

\* the db.commit() that ends update_charger_status, and the handler's answer
ReportCommit(w) ==
    /\ inflight[w].pc = "computed"
    /\ chargers' = commit_status(chargers, inflight[w].charger_id,
                                 inflight[w].computed, inflight[w].stamp)
    /\ request' = [op |-> "report", charger_id |-> inflight[w].charger_id,
                   user_id |-> inflight[w].user_id, issue_type |-> inflight[w].issue_type,
                   at |-> inflight[w].stamp, submission |-> inflight[w]]
    /\ response' = [code |-> 200, detail |-> "Report submitted successfully",
                    body |-> <<inflight[w].report_id>>]
    /\ inflight' = [inflight EXCEPT ![w] = Idle]
    /\ UNCHANGED <<now, reports, reviews, vehicles, trips, favorites, caller, open_sessions>>

RaceChargers == {1, 3}

NextRace ==
    \/ \E d \in TickSteps : Tick(d)
    \/ \E w \in Workers, u \in Reporters, c \in RaceChargers, k \in {"working", "broken"} :
          ReportStore(w, u, c, k)
    \/ \E w \in Workers : ReportRead(w)
    \/ \E w \in Workers : ReportCommit(w)

SpecRace == InitReport /\ [][NextRace]_vars

\* the last request answered was a stored report whose recompute committed
Submitted ==
    /\ request.op = "report"
    /\ response.code = 200

C18_SelfCorrects ==
    (Submitted /\ request.submission.alone /\ InFlightFor(request.charger_id) = {}) =>
        StoredCharger(request.charger_id).status
            = ChainStatus(request.charger_id, request.submission.stamp)

\* on day 0, where no report has aged out, a submission found the stored
\* status wrong, ran alone and left it right
C18_Witness ==
    /\ Submitted
    /\ request.submission.alone
    /\ request.submission.wrong_before
    /\ InFlightFor(request.charger_id) = {}
    /\ now = 0
    /\ StoredCharger(request.charger_id).status = ChainStatus(request.charger_id, now)

(***************************************************************************)
(* Authentication: get_current_user and member_required                    *)
(***************************************************************************)
\* the users table: two members and an account whose role is not member
Users ==
    << [id |-> 1, role |-> "member"],
       [id |-> 2, role |-> "member"],
       [id |-> 3, role |-> "admin"] >>

\* what a request can present: no Authorization header, a token that does
\* not decode, a token without user_id, a token for a member, for the
\* account that is not a member, and for user 4, who is not in the table
Tokens ==
    { [kind |-> "none", user_id |-> 0],
      [kind |-> "invalid", user_id |-> 0],
      [kind |-> "no_user_id", user_id |-> 0] }
    \cup { [kind |-> "valid", user_id |-> u] : u \in {1, 3, 4} }

Unauthorized(user_id) ==
    [code |-> 401, detail |-> "Could not validate credentials", user_id |-> user_id,
     role |-> "", opened |-> 0, closed |-> 0]

\* get_current_user: the user it returns (code 200), the 401 it raises, or
\* the exception of a failing query (code 500); opened and closed count
\* SessionLocal() and db.close()
get_current_user(token, db_ok) ==
    LET found == { i \in DOMAIN Users : Users[i].id = token.user_id }
    IN  IF token.kind = "none"
        THEN [Unauthorized(0) EXCEPT !.detail = "Not authenticated"]
        ELSE IF token.kind \in {"invalid", "no_user_id"}
        THEN Unauthorized(0)
        ELSE IF ~db_ok
        THEN [code |-> 500, detail |-> "Internal Server Error",
              user_id |-> token.user_id, role |-> "", opened |-> 1, closed |-> 0]
        ELSE IF found = {}
        THEN [Unauthorized(token.user_id) EXCEPT !.opened = 1, !.closed = 1]
        ELSE [code |-> 200, detail |-> "", user_id |-> token.user_id,
              role |-> Users[CHOOSE i \in found : TRUE].role,
              opened |-> 1, closed |-> 1]

MemberRequiredIgnoringRole(user) == user

\* member_required applied to the outcome of get_current_user
member_required(user) ==
    IF user.code # 200 THEN user
    ELSE IF user.role # "member"
    THEN [user EXCEPT !.code = 403, !.detail = "Members only"]
    ELSE user

\* the dependencies of a request to an authenticated operation; a request
\* they reject is answered here, one they admit goes on to its handler
Authenticate(token, db_ok) ==
    LET user == member_required(get_current_user(token, db_ok))
    IN  /\ open_sessions + user.opened - user.closed <= MaxOpenSessions
        /\ caller' = [token |-> token, code |-> user.code, detail |-> user.detail,
                      user_id |-> user.user_id]
        /\ open_sessions' = open_sessions + user.opened - user.closed
        /\ IF user.code = 200
           THEN UNCHANGED <<request, response>>
           ELSE /\ request' = [op |-> "rejected"]
                /\ response' = [code |-> user.code, detail |-> user.detail, body |-> <<>>]
        /\ UNCHANGED <<now, chargers, reports, reviews, vehicles, trips, inflight,
                       favorites>>

\* the caller the dependencies admitted
Admitted(user_id) ==
    /\ caller.code = 200
    /\ caller.user_id = user_id

\* GET /users/me
GetMyProfile(user_id) ==
    /\ request' = [op |-> "profile", user_id |-> user_id]
    /\ response' = [code |-> 200, detail |-> "", body |-> <<user_id>>]
    /\ UNCHANGED <<now, chargers, reports, reviews, vehicles, trips, inflight,
                   favorites, caller, open_sessions>>

(***************************************************************************)
(* Reviews                                                                 *)
(***************************************************************************)
NoExistingReview(all_reviews, user_id, charger_id) == {}

\* the rows of `Review.user_id == user.id, Review.charger_id == charger_id`
existing_review(all_reviews, user_id, charger_id) ==
    { i \in DOMAIN all_reviews :
        all_reviews[i].user_id = user_id /\ all_reviews[i].charger_id = charger_id }

Ratings == {2, 5}

\* POST /chargers/{charger_id}/reviews by an authenticated member
AddReview(user_id, charger_id, rating) ==
    /\ next_id(reviews) <= MaxReviews
    /\ request' = [op |-> "add_review", user_id |-> user_id,
                   charger_id |-> charger_id, rating |-> rating]
    /\ IF ~charger_found(chargers, charger_id)
       THEN /\ response' = [code |-> 404, detail |-> "Charger not found", body |-> <<>>]
            /\ UNCHANGED reviews
       ELSE IF existing_review(reviews, user_id, charger_id) # {}
       THEN /\ response' = [code |-> 400, detail |-> "You already reviewed this charger",
                            body |-> <<>>]
            /\ UNCHANGED reviews
       ELSE /\ reviews' = Append(reviews,
                                 NewReview(next_id(reviews), user_id, charger_id, rating))
            /\ response' = [code |-> 200, detail |-> "Review added successfully",
                            body |-> <<next_id(reviews)>>]
    /\ UNCHANGED <<now, chargers, reports, vehicles, trips, inflight,
                   favorites, caller, open_sessions>>

\* PUT /reviews/{review_id}
UpdateReview(user_id, review_id, rating) ==
    LET found == RowsById(reviews, review_id)
        row == CHOOSE i \in found : TRUE
    IN  /\ request' = [op |-> "update_review", user_id |-> user_id,
                       review_id |-> review_id, rating |-> rating]
        /\ IF found = {}
           THEN /\ response' = [code |-> 404, detail |-> "Review not found", body |-> <<>>]
                /\ UNCHANGED reviews
           ELSE IF reviews[row].user_id # user_id
           THEN /\ response' = [code |-> 403,
                                detail |-> "You can only edit your own reviews",
                                body |-> <<>>]
                /\ UNCHANGED reviews
           ELSE /\ reviews' = [reviews EXCEPT ![row].rating = rating]
                /\ response' = [code |-> 200, detail |-> "Review updated successfully",
                                body |-> <<review_id>>]
        /\ UNCHANGED <<now, chargers, reports, vehicles, trips, inflight,
                       favorites, caller, open_sessions>>

\* DELETE /reviews/{review_id}
DeleteReview(user_id, review_id) ==
    LET found == RowsById(reviews, review_id)
        row == CHOOSE i \in found : TRUE
    IN  /\ request' = [op |-> "delete_review", user_id |-> user_id,
                       review_id |-> review_id]
        /\ IF found = {}
           THEN /\ response' = [code |-> 404, detail |-> "Review not found", body |-> <<>>]
                /\ UNCHANGED reviews
           ELSE IF reviews[row].user_id # user_id
           THEN /\ response' = [code |-> 403,
                                detail |-> "You can only delete your own reviews",
                                body |-> <<>>]
                /\ UNCHANGED reviews
           ELSE /\ reviews' = without(reviews, found)
                /\ response' = [code |-> 200, detail |-> "Review deleted successfully",
                                body |-> <<>>]
        /\ UNCHANGED <<now, chargers, reports, vehicles, trips, inflight,
                       favorites, caller, open_sessions>>

\* POST /reviews/{review_id}/helpful
MarkReviewHelpful(user_id, review_id) ==
    LET found == RowsById(reviews, review_id)
        row == CHOOSE i \in found : TRUE
    IN  /\ found # {} => reviews[row].helpful_count < MaxHelpful
        /\ request' = [op |-> "helpful", user_id |-> user_id, review_id |-> review_id]
        /\ IF found = {}
           THEN /\ response' = [code |-> 404, detail |-> "Review not found", body |-> <<>>]
                /\ UNCHANGED reviews
           ELSE /\ reviews' = [reviews EXCEPT ![row].helpful_count = @ + 1]
                /\ response' = [code |-> 200, detail |-> "Review marked as helpful",
                                body |-> <<reviews[row].helpful_count + 1>>]
        /\ UNCHANGED <<now, chargers, reports, vehicles, trips, inflight,
                       favorites, caller, open_sessions>>

(***************************************************************************)
(* SpecReview: members add, edit, delete and vote for reviews              *)
(***************************************************************************)
ReviewIds == 1..2

InitReview ==
    /\ now = 0
    /\ chargers = TwoChargers
    /\ reports = <<>>
    /\ reviews = <<>>
    /\ vehicles = <<>>
    /\ trips = <<>>
    /\ request = NoRequest
    /\ response = NoResponse
    /\ inflight = NoneInFlight
    /\ favorites = <<>>
    /\ caller = NoCaller
    /\ open_sessions = 0

NextReview ==
    \/ \E u \in UserIds, c \in ChargerIds, r \in Ratings : AddReview(u, c, r)
    \/ \E u \in UserIds, id \in ReviewIds : UpdateReview(u, id, 4)
    \/ \E u \in UserIds, id \in ReviewIds : DeleteReview(u, id)
    \/ \E u \in UserIds, id \in ReviewIds : MarkReviewHelpful(u, id)

SpecReview == InitReview /\ [][NextReview]_vars

\* C22: add_review by a user who already has a review for the charger is
\* answered 400 and leaves the stored reviews as they are.
C22_DoubleReviewRejected ==
    [][(/\ request'.op = "add_review"
        /\ \E i \in DOMAIN reviews :
              /\ reviews[i].user_id = request'.user_id
              /\ reviews[i].charger_id = request'.charger_id) =>
           /\ response'.code = 400
           /\ reviews' = reviews]_vars

\* a second review for the same charger rejected while another user's review
\* is stored too
C22_Witness ==
    /\ request.op = "add_review"
    /\ response.code = 400
    /\ Len(reviews) >= 2
    /\ \E i \in DOMAIN reviews :
          /\ reviews[i].user_id = request.user_id
          /\ reviews[i].charger_id = request.charger_id
          /\ reviews[i].rating # request.rating

\* C23: a user's vote for a review counts once: when a user who has just
\* marked a review helpful marks it again, helpful_count does not rise again.
C23_OneVotePerUser ==
    [][(/\ request.op = "helpful"
        /\ response.code = 200
        /\ request'.op = "helpful"
        /\ request'.user_id = request.user_id
        /\ request'.review_id = request.review_id) =>
           \A i \in DOMAIN reviews :
               i \in DOMAIN reviews' =>
                   reviews'[i].helpful_count <= reviews[i].helpful_count]_vars

(***************************************************************************)
(* Favorites, trip deletion, listing and search                            *)
(***************************************************************************)
\* the rows of `Favorite.user_id == user.id, Favorite.charger_id == charger_id`
existing_favorite(all_favorites, user_id, charger_id) ==
    { i \in DOMAIN all_favorites :
        all_favorites[i].user_id = user_id /\ all_favorites[i].charger_id = charger_id }

\* POST /favorites/{charger_id}
AddFavorite(user_id, charger_id) ==
    /\ next_id(favorites) <= MaxFavorites
    /\ request' = [op |-> "add_favorite", user_id |-> user_id, charger_id |-> charger_id]
    /\ IF ~charger_found(chargers, charger_id)
       THEN /\ response' = [code |-> 404, detail |-> "Charger not found", body |-> <<>>]
            /\ UNCHANGED favorites
       ELSE IF existing_favorite(favorites, user_id, charger_id) # {}
       THEN /\ response' = [code |-> 200, detail |-> "Charger already in favorites",
                            body |-> <<>>]
            /\ UNCHANGED favorites
       ELSE /\ favorites' = Append(favorites,
                                   [id |-> next_id(favorites), user_id |-> user_id,
                                    charger_id |-> charger_id])
            /\ response' = [code |-> 200, detail |-> "Charger added to favorites",
                            body |-> <<>>]
    /\ UNCHANGED <<now, chargers, reports, reviews, vehicles, trips, inflight,
                   caller, open_sessions>>

\* DELETE /favorites/{charger_id}
RemoveFavorite(user_id, charger_id) ==
    LET found == existing_favorite(favorites, user_id, charger_id)
    IN  /\ request' = [op |-> "remove_favorite", user_id |-> user_id,
                       charger_id |-> charger_id]
        /\ IF found = {}
           THEN /\ response' = [code |-> 404, detail |-> "Favorite not found", body |-> <<>>]
                /\ UNCHANGED favorites
           ELSE /\ favorites' = without(favorites, found)
                /\ response' = [code |-> 200, detail |-> "Charger removed from favorites",
                                body |-> <<>>]
        /\ UNCHANGED <<now, chargers, reports, reviews, vehicles, trips, inflight,
                       caller, open_sessions>>

TripByIdOnly(all_trips, trip_id, user_id) == RowsById(all_trips, trip_id)

\* the rows of `Trip.id == trip_id, Trip.user_id == user.id`
owned_trip(all_trips, trip_id, user_id) ==
    { i \in DOMAIN all_trips :
        all_trips[i].id = trip_id /\ all_trips[i].user_id = user_id }

\* DELETE /trips/{trip_id}
DeleteTrip(user_id, trip_id) ==
    LET found == owned_trip(trips, trip_id, user_id)
    IN  /\ request' = [op |-> "delete_trip", user_id |-> user_id, trip_id |-> trip_id]
        /\ IF found = {}
           THEN /\ response' = [code |-> 404, detail |-> "Trip not found", body |-> <<>>]
                /\ UNCHANGED trips
           ELSE /\ trips' = without(trips, found)
                /\ response' = [code |-> 200, detail |-> "Trip deleted", body |-> <<>>]
        /\ UNCHANGED <<now, chargers, reports, reviews, vehicles, inflight,
                       favorites, caller, open_sessions>>

\* query.offset(skip).limit(limit).all()
page(rows, skip, limit) ==
    SubSeq(rows, skip + 1, IF skip + limit < Len(rows) THEN skip + limit ELSE Len(rows))

\* the dict of one charger in a listing
listed_charger(all_reviews, all_reports, charger) ==
    [id |-> charger.id, status |-> charger.status,
     review_count |-> review_count(all_reviews, charger.id),
     report_count |-> Len(SelectSeq(all_reports, LAMBDA r : r.charger_id = charger.id))]

\* the response of GET /chargers (min_rating NULL) and of GET /chargers/search
\* without city, usage_type and connector_type
search_chargers(all_chargers, all_reviews, all_reports, q) ==
    LET matching == IF q.status # ""
                    THEN SelectSeq(all_chargers, LAMBDA c : c.status = q.status)
                    ELSE all_chargers
        shown == SelectSeq(page(matching, q.skip, q.limit),
                           LAMBDA c : ~below_min_rating(all_reviews, c.id, q.min_rating))
    IN  [code |-> 200, detail |-> "", total |-> Len(matching),
         body |-> [i \in DOMAIN shown |->
                      listed_charger(all_reviews, all_reports, shown[i])]]

\* GET /chargers and GET /chargers/search
SearchChargers(q) ==
    /\ request' = [op |-> "search", q |-> q]
    /\ response' = search_chargers(chargers, reviews, reports, q)
    /\ UNCHANGED <<now, chargers, reports, reviews, vehicles, trips, inflight,
                   favorites, caller, open_sessions>>

SearchQueries ==
    [status : {"working"}, min_rating : {NULL, 35}, skip : {0}, limit : {1}]

(***************************************************************************)
(* SpecAuth: requests to the authenticated operations, each first passing  *)
(* the dependencies and then, if admitted, running its handler             *)
(***************************************************************************)
AuthChargers == {1}

AuthReplies == { r \in ProviderReplies : r.distance = 99996 }

NextAuth ==
    \/ \E token \in Tokens, db_ok \in BOOLEAN : Authenticate(token, db_ok)
    \/ \E u \in 1..Len(Users) : Admitted(u) /\ GetMyProfile(u)
    \/ \E u \in 1..Len(Users), c \in AuthChargers :
          Admitted(u) /\ ReportChargerIssue(u, c, "broken")
    \/ \E u \in 1..Len(Users), v \in StatusVehicles :
          Admitted(u) /\ AddOrUpdateVehicle(u, v)
    \/ \E u \in 1..Len(Users), reply \in AuthReplies :
          Admitted(u) /\ PlanTrip(u, <<340, 360>>, reply)
    \/ \E u \in 1..Len(Users) : Admitted(u) /\ DeleteTrip(u, 1)
    \/ \E u \in 1..Len(Users), c \in AuthChargers : Admitted(u) /\ AddReview(u, c, 5)
    \/ \E u \in 1..Len(Users) : Admitted(u) /\ MarkReviewHelpful(u, 1)
    \/ \E u \in 1..Len(Users), c \in AuthChargers : Admitted(u) /\ AddFavorite(u, c)
    \/ \E u \in 1..Len(Users), c \in AuthChargers : Admitted(u) /\ RemoveFavorite(u, c)

SpecAuth == InitReview /\ [][NextAuth]_vars

\* C21: every session opened while a request is served is released when the
\* request completes, whether it succeeds or fails, the session that
\* get_current_user opens included: between requests no session is open.
C21_SessionsReleased == open_sessions = 0

\* what the operations store
Stored == <<chargers, reports, reviews, vehicles, trips, favorites>>

IsUser(token) ==
    /\ token.kind = "valid"
    /\ \E i \in DOMAIN Users : Users[i].id = token.user_id

IsMember(token) ==
    /\ token.kind = "valid"
    /\ \E i \in DOMAIN Users : Users[i].id = token.user_id /\ Users[i].role = "member"

\* C24: a request to an authenticated operation that presents no valid token
\* is answered 401, one whose user is not a member 403 (500 if the lookup of
\* the user itself fails), and in each case nothing stored changes.
C24_AuthRequired ==
    [][(caller'.token.kind # "unasked" /\ ~IsMember(caller'.token)) =>
           /\ Stored' = Stored
           /\ response'.code = caller'.code
           /\ caller'.code \in {401, 403, 500}
           /\ caller'.code = 403 => IsUser(caller'.token)
           /\ caller'.code = 401 => ~IsUser(caller'.token)
           /\ caller'.code = 500 => caller'.token.kind = "valid"]_vars

\* the account whose role is not member refused while reports are stored
C24_Witness ==
    /\ caller.token.kind = "valid"
    /\ caller.token.user_id = 3
    /\ caller.code = 403
    /\ response.code = 403
    /\ reports # <<>>
    /\ trips # <<>>

(***************************************************************************)
(* SpecFrame: every modelled operation running against the same database   *)
(***************************************************************************)
FrameChargers == {1, 2}

\* the submissions: working for station 1, broken for station 2
FrameReports == { <<1, "working">>, <<2, "broken">> }

FrameReplies == { r \in ProviderReplies : r.distance = 99996 }

NextFrame ==
    \/ \E d \in TickSteps : Tick(d)
    \/ \E u \in Reporters, r \in FrameReports : ReportChargerIssue(u, r[1], r[2])
    \/ \E c \in FrameChargers : GetChargerStatus(c)
    \/ \E q \in StatusQueries, routing \in RoutingStates : GetNearbyChargers(q, routing)
    \/ \E q \in SearchQueries : SearchChargers(q)
    \/ \E u \in Reporters : AddReview(u, 1, 5)
    \/ \E u \in Reporters : AddFavorite(u, 2)
    \/ \E u \in Reporters, v \in StatusVehicles : AddOrUpdateVehicle(u, v)
    \/ \E u \in Reporters, reply \in FrameReplies : PlanTrip(u, <<340, 360>>, reply)

SpecFrame == InitReview /\ [][NextFrame]_vars

\* C25: a station's status and status_updated_at change only in the recompute
\* of a report submission for that station: no other operation changes the
\* status fields of any station, and a report for one station leaves every
\* other station as it was.
C25_StatusFrame ==
    [][\A i \in DOMAIN chargers :
          /\ chargers'[i].id = chargers[i].id
          /\ (\/ chargers'[i].status # chargers[i].status
              \/ chargers'[i].status_updated_at # chargers[i].status_updated_at) =>
                 /\ request'.op = "report"
                 /\ request'.charger_id = chargers[i].id
                 /\ request'.at = now
                 /\ response'.code = 200
                 /\ chargers'[i].status_updated_at = now]_vars

\* station 1 was just set to working by a report while station 2 keeps the
\* broken status an earlier report gave it, with a review, a favorite and a
\* trip stored in between
C25_Witness ==
    /\ request.op = "report"
    /\ request.charger_id = 1
    /\ StoredCharger(1).status = "working"
    /\ StoredCharger(1).status_updated_at = now
    /\ StoredCharger(2).status = "broken"
    /\ StoredCharger(2).status_updated_at < now
    /\ reviews # <<>>
    /\ favorites # <<>>
    /\ trips # <<>>

(***************************************************************************)
(* SpecTripLife: members plan trips and delete them                        *)
(***************************************************************************)
TripIds == 1..2

TripLifeReplies == { r \in ProviderReplies : r.kind = "timeout" \/ r.distance = 99996 }

NextTripLife ==
    \/ \E u \in UserIds, v \in StatusVehicles : AddOrUpdateVehicle(u, v)
    \/ \E u \in UserIds, leg \in Legs, reply \in TripLifeReplies : PlanTrip(u, leg, reply)
    \/ \E u \in UserIds, id \in TripIds : DeleteTrip(u, id)
    \/ \E u \in UserIds : AddFavorite(u, 1)

SpecTripLife == InitReview /\ [][NextTripLife]_vars

TripById(all_trips, id) == { i \in DOMAIN all_trips : all_trips[i].id = id }

\* C26: a successful plan_trip adds exactly one Trip, owned by the caller;
\* a stored Trip never changes; a Trip disappears only through delete_trip
\* called by its owner, and delete_trip by anyone else is answered 404 and
\* leaves the Trip stored.
C26_TripLifecycle ==
    [][/\ (request'.op = "plan_trip" /\ response'.code = 200) =>
             /\ Len(trips') = Len(trips) + 1
             /\ trips'[Len(trips')].user_id = request'.user_id
             /\ TripById(trips, trips'[Len(trips')].id) = {}
       /\ Len(trips') > Len(trips) =>
             (request'.op = "plan_trip" /\ response'.code = 200)
       /\ \A i \in DOMAIN trips :
             IF TripById(trips', trips[i].id) # {}
             THEN \E j \in DOMAIN trips' : trips'[j] = trips[i]
             ELSE /\ request'.op = "delete_trip"
                  /\ request'.trip_id = trips[i].id
                  /\ request'.user_id = trips[i].user_id
                  /\ response'.code = 200
       /\ (/\ request'.op = "delete_trip"
           /\ \A i \in TripById(trips, request'.trip_id) :
                 trips[i].user_id # request'.user_id) =>
             /\ response'.code = 404
             /\ trips' = trips]_vars

\* delete_trip refused for a trip that another user owns
C26_Witness ==
    /\ request.op = "delete_trip"
    /\ response.code = 404
    /\ Len(trips) = 2
    /\ \E i \in TripById(trips, request.trip_id) : trips[i].user_id # request.user_id

(***************************************************************************)
(* SpecTimely: interleaved submissions, each served within the 7-day window *)
(***************************************************************************)
\* the clock advances by d days; a request that has stored its report reads
\* the reports before that report leaves the seven-day window
TimelyTick(d) ==
    /\ \A w \in Workers :
          inflight[w].pc = "stored" =>
              now + d - reports[inflight[w].report_id].created_at <= SevenDays
    /\ Tick(d)

TimelyChargers == {1}

NextTimely ==
    \/ \E d \in TickSteps : TimelyTick(d)
    \/ \E w \in Workers, u \in Reporters, c \in TimelyChargers, k \in IssueTypes :
          ReportStore(w, u, c, k)
    \/ \E w \in Workers : ReportRead(w)
    \/ \E w \in Workers : ReportCommit(w)

SpecTimely == InitReport /\ [][NextTimely]_vars

\* C28: every status a report-triggered recompute computes and writes is one
\* of working, broken, occupied, under_construction, under any interleaving
\* of submissions: a station whose status is unknown was never written.
C28_RecomputeNeverUnknown ==
    /\ \A w \in Workers :
          inflight[w].pc = "computed" => inflight[w].computed \in IssueTypes
    /\ Submitted => request.submission.computed \in IssueTypes
    /\ \A i \in DOMAIN chargers :
          chargers[i].status = "unknown" => chargers[i] = TwoChargers[i]

\* an interleaved submission committed a status other than broken or working
C28_Witness ==
    /\ Submitted
    /\ ~request.submission.alone
    /\ request.submission.computed = "under_construction"
    /\ \E i \in RowsById(chargers, request.charger_id) :
          chargers[i].status = "under_construction"

\* C29: a station's stored status_updated_at never decreases across report
\* submissions, including interleaved ones where one recompute takes its
\* timestamp before another but commits after it.
C29_TimestampNeverDecreases ==
    [][\A i \in DOMAIN chargers :
          chargers'[i].status_updated_at >= chargers[i].status_updated_at]_vars

(***************************************************************************)
(* SpecVehicleRace: add_or_update_vehicle, one step per database round trip *)
(***************************************************************************)
VehicleRaceInputs ==
    { [connector_type |-> ccs,   range_km |-> 10000],
      [connector_type |-> Type2, range_km |-> 30000] }

InsertAlways(all_vehicles, user_id) == TRUE

\* Vehicle.user_id is unique=True: the INSERT of a row is accepted only when
\* no stored row has that user_id
user_id_unique(all_vehicles, user_id) ==
    \A i \in DOMAIN all_vehicles : all_vehicles[i].user_id # user_id

\* add_or_update_vehicle up to the query for the caller's vehicle
VehicleQuery(w, user_id, vehicle_data) ==
    /\ inflight[w].pc = "idle"
    /\ inflight' = [inflight EXCEPT
                       ![w] = [pc |-> "queried", user_id |-> user_id,
                               vehicle_data |-> vehicle_data,
                               vehicle |-> user_vehicle(vehicles, user_id)]]
    /\ UNCHANGED <<now, chargers, reports, reviews, vehicles, trips, request, response,
                   favorites, caller, open_sessions>>

\* the rest of add_or_update_vehicle: the row found is updated, or a new row
\* is added, and db.commit() writes it; a refused INSERT raises out of the
\* handler and is answered 500
VehicleCommit(w) ==
    /\ inflight[w].pc = "queried"
    /\ LET mine == inflight[w].vehicle
           user_id == inflight[w].user_id
           vehicle_data == inflight[w].vehicle_data
       IN  /\ IF mine # <<>>
              THEN /\ vehicles' =
                         [i \in DOMAIN vehicles |->
                             IF vehicles[i].id = mine[1].id
                             THEN [vehicles[i] EXCEPT
                                      !.connector_type = vehicle_data.connector_type,
                                      !.range_km = vehicle_data.range_km]
                             ELSE vehicles[i]]
                   /\ response' = [code |-> 200, detail |-> "Vehicle saved successfully",
                                   body |-> <<mine[1].id>>]
              ELSE IF ~user_id_unique(vehicles, user_id)
              THEN /\ UNCHANGED vehicles
                   /\ response' = [code |-> 500, detail |-> "Internal Server Error",
                                   body |-> <<>>]
              ELSE /\ vehicles' = Append(vehicles,
                                         [id |-> next_id(vehicles), user_id |-> user_id,
                                          connector_type |-> vehicle_data.connector_type,
                                          range_km |-> vehicle_data.range_km])
                   /\ response' = [code |-> 200, detail |-> "Vehicle saved successfully",
                                   body |-> <<next_id(vehicles)>>]
           /\ request' = [op |-> "vehicle", user_id |-> user_id,
                          vehicle_data |-> vehicle_data, found |-> mine]
    /\ inflight' = [inflight EXCEPT ![w] = Idle]
    /\ UNCHANGED <<now, chargers, reports, reviews, trips, favorites, caller, open_sessions>>

NextVehicleRace ==
    \/ \E w \in Workers, u \in UserIds, d \in VehicleRaceInputs : VehicleQuery(w, u, d)
    \/ \E w \in Workers : VehicleCommit(w)

SpecVehicleRace == InitReview /\ [][NextVehicleRace]_vars

VehiclesOf(all_vehicles, user_id) ==
    {i \in DOMAIN all_vehicles : all_vehicles[i].user_id = user_id}

\* C27: after any sequence of add_or_update_vehicle calls, interleaved calls
\* by one user included, every user owns at most one Vehicle; a call whose
\* query found the caller's vehicle sets that vehicle's connector_type and
\* range_km and adds no row.
C27_OneVehiclePerUser ==
    [][/\ \A u \in UserIds : Cardinality(VehiclesOf(vehicles', u)) <= 1
       /\ \A w \in Workers :
             (inflight[w].pc = "queried" /\ inflight'[w].pc = "idle"
                 /\ inflight[w].vehicle # <<>>) =>
                /\ Len(vehicles') = Len(vehicles)
                /\ response'.code = 200
                /\ \A i \in DOMAIN vehicles :
                      IF vehicles[i].user_id = inflight[w].user_id
                      THEN vehicles'[i] =
                              [vehicles[i] EXCEPT
                                  !.connector_type = inflight[w].vehicle_data.connector_type,
                                  !.range_km = inflight[w].vehicle_data.range_km]
                      ELSE vehicles'[i] = vehicles[i]]_vars

\* two calls by one user both found no vehicle; the second to commit was
\* refused and the user owns one vehicle
C27_Witness ==
    /\ request.op = "vehicle"
    /\ request.found = <<>>
    /\ response.code = 500
    /\ Cardinality(VehiclesOf(vehicles, request.user_id)) = 1

(***************************************************************************)
(* SpecReviewRace: add_review, one step per database round trip            *)
(***************************************************************************)
\* add_review up to the existing-review check: 404 for a missing charger,
\* 400 when the caller's review of the charger is stored
ReviewCheck(w, user_id, charger_id, rating) ==
    /\ inflight[w].pc = "idle"
    /\ IF ~charger_found(chargers, charger_id)
       THEN /\ request' = [op |-> "add_review", user_id |-> user_id,
                           charger_id |-> charger_id, rating |-> rating]
            /\ response' = [code |-> 404, detail |-> "Charger not found", body |-> <<>>]
            /\ UNCHANGED inflight
       ELSE IF existing_review(reviews, user_id, charger_id) # {}
       THEN /\ request' = [op |-> "add_review", user_id |-> user_id,
                           charger_id |-> charger_id, rating |-> rating]
            /\ response' = [code |-> 400, detail |-> "You already reviewed this charger",
                            body |-> <<>>]
            /\ UNCHANGED inflight
       ELSE /\ inflight' = [inflight EXCEPT
                               ![w] = [pc |-> "checked", user_id |-> user_id,
                                       charger_id |-> charger_id, rating |-> rating]]
            /\ UNCHANGED <<request, response>>
    /\ UNCHANGED <<now, chargers, reports, reviews, vehicles, trips,
                   favorites, caller, open_sessions>>

\* the rest of add_review: db.add(review) and db.commit(); the reviews table
\* declares no uniqueness on (user_id, charger_id), so the INSERT is accepted
ReviewInsert(w) ==
    /\ inflight[w].pc = "checked"
    /\ next_id(reviews) <= MaxReviews
    /\ reviews' = Append(reviews,
                         NewReview(next_id(reviews), inflight[w].user_id,
                                   inflight[w].charger_id, inflight[w].rating))
    /\ request' = [op |-> "add_review", user_id |-> inflight[w].user_id,
                   charger_id |-> inflight[w].charger_id, rating |-> inflight[w].rating]
    /\ response' = [code |-> 200, detail |-> "Review added successfully",
                    body |-> <<next_id(reviews)>>]
    /\ inflight' = [inflight EXCEPT ![w] = Idle]
    /\ UNCHANGED <<now, chargers, reports, vehicles, trips, favorites, caller, open_sessions>>

\* charger 1 is stored, charger 3 is not
ReviewRaceChargers == {1, 3}

NextReviewRace ==
    \/ \E w \in Workers, u \in UserIds, c \in ReviewRaceChargers :
          ReviewCheck(w, u, c, 5)
    \/ \E w \in Workers : ReviewInsert(w)

SpecReviewRace == InitReview /\ [][NextReviewRace]_vars

\* C30: in every reachable state there is at most one Review per
\* (user, charger) pair, also when two add_review requests by one user for
\* one charger both run the existing-review check before either inserts.
C30_OneReviewPerUserAndCharger ==
    \A i, j \in DOMAIN reviews :
        (reviews[i].user_id = reviews[j].user_id
            /\ reviews[i].charger_id = reviews[j].charger_id) => i = j

====
